---- MODULE Spec2Model ----
(***************************************************************************)
(* Model of scripts/update_cargo_toml.py: the dependency-table rewrite     *)
(* (update_deps), the per-manifest step (process_file) and the tree walk   *)
(* (main).                                                                 *)
(***************************************************************************)
EXTENDS Integers, Sequences, FiniteSets, TLC

(* ------------------------------------------------------------------ *)
(* Bounds of the model.                                                *)
(* ------------------------------------------------------------------ *)

\* Largest number of entries of a dependency table drawn as an input.
MaxKeys == 2

\* Number of successive update_deps calls applied to one table.
MaxCalls == 2

\* Number of directories of the tree: directory 1 is the root "crates", the
\* others are its subdirectories.
NumDirs == 2

(* ------------------------------------------------------------------ *)
(* Program constants and values.                                       *)
(* ------------------------------------------------------------------ *)

\* The Legacy Package Set, in the order of the source.
MERGED_CRATES ==
    << "paws_spinner", "paws_display", "paws_select", "paws_stream",
       "paws_walker", "paws_tracker", "paws_json_repair", "paws_template",
       "paws_snaps", "paws_test_kit", "paws_fs" >>

\* The consolidated package name written by update_deps.
PAWS_COMMON == "paws_common"

\* A dependency specification given as a plain version string.
Str(s) == [str |-> s]

\* The fixed replacement entry {"workspace": True}.
WORKSPACE_TRUE == [workspace |-> TRUE]

\* The dependency names input tables are drawn from: two legacy names, the
\* consolidated name and an unrelated one.
KeyUniverse == {"paws_fs", "paws_test_kit", PAWS_COMMON, "serde"}

\* The dependency specifications input tables are drawn from.
ValueUniverse == {Str("1.0"), Str("0.1"), WORKSPACE_TRUE}

\* The dict with no entry.
EmptyTbl == [k \in {} |-> WORKSPACE_TRUE]

\* A value found where a dependency table is looked up: a dict ("table"),
\* nothing at all (None / key not in the document: "absent"), or a non-zero
\* integer scalar ("int").
Table(t) == [kind |-> "table", tbl |-> t]
AbsentT == [kind |-> "absent", tbl |-> EmptyTbl]
IntT == [kind |-> "int", tbl |-> EmptyTbl]

\* All dicts over the keys ks with values vs and at most n entries.
TablesUpTo(ks, vs, n) ==
    UNION {[S -> vs] : S \in {X \in SUBSET ks : Cardinality(X) <= n}}

(* ------------------------------------------------------------------ *)
(* update_deps                                                         *)
(* ------------------------------------------------------------------ *)

\* The set of legacy names.
LegacySet == {MERGED_CRATES[i] : i \in 1..Len(MERGED_CRATES)}

\* del deps[crate]
Del(t, k) == [x \in (DOMAIN t) \ {k} |-> t[x]]

\* deps[k] = v
Put(t, k, v) == [x \in (DOMAIN t) \cup {k} |-> IF x = k THEN v ELSE t[x]]

\* for crate in to_remove: del deps[crate]
RECURSIVE DelAll(_, _)
DelAll(t, seq) ==
    IF seq = <<>> THEN t ELSE DelAll(Del(t, Head(seq)), Tail(seq))

\* Python truthiness of the argument of update_deps.
Truthy(d) ==
    \/ d.kind = "int"
    \/ d.kind = "table" /\ DOMAIN d.tbl # {}

\* A slip of update_deps: the consolidated entry is inserted only when the
\* table does not hold one yet (a prior value survives).
update_deps_keep(d) ==
    IF ~Truthy(d) THEN [deps |-> d, ret |-> FALSE, raised |-> FALSE]
    ELSE IF d.kind = "int" THEN [deps |-> d, ret |-> FALSE, raised |-> TRUE]
    ELSE LET to_remove == SelectSeq(MERGED_CRATES, LAMBDA c : c \in DOMAIN d.tbl)
             modified == to_remove # <<>>
             removed == DelAll(d.tbl, to_remove)
             final == IF modified /\ PAWS_COMMON \notin DOMAIN removed
                      THEN Put(removed, PAWS_COMMON, WORKSPACE_TRUE)
                      ELSE removed
         IN  [deps |-> Table(final), ret |-> modified, raised |-> FALSE]

\* A slip of update_deps: the consolidated entry is inserted whether or not a
\* legacy entry was found.
update_deps_always(d) ==
    IF ~Truthy(d) THEN [deps |-> d, ret |-> FALSE, raised |-> FALSE]
    ELSE IF d.kind = "int" THEN [deps |-> d, ret |-> FALSE, raised |-> TRUE]
    ELSE LET to_remove == SelectSeq(MERGED_CRATES, LAMBDA c : c \in DOMAIN d.tbl)
             modified == to_remove # <<>>
             removed == DelAll(d.tbl, to_remove)
         IN  [deps |-> Table(Put(removed, PAWS_COMMON, WORKSPACE_TRUE)),
              ret |-> modified, raised |-> FALSE]

\* A slip of update_deps: the scan stops at the first legacy entry found.
update_deps_first(d) ==
    IF ~Truthy(d) THEN [deps |-> d, ret |-> FALSE, raised |-> FALSE]
    ELSE IF d.kind = "int" THEN [deps |-> d, ret |-> FALSE, raised |-> TRUE]
    ELSE LET found == SelectSeq(MERGED_CRATES, LAMBDA c : c \in DOMAIN d.tbl)
             to_remove == IF found = <<>> THEN <<>> ELSE <<Head(found)>>
             modified == to_remove # <<>>
             removed == DelAll(d.tbl, to_remove)
             final == IF modified
                      THEN Put(removed, PAWS_COMMON, WORKSPACE_TRUE)
                      ELSE removed
         IN  [deps |-> Table(final), ret |-> modified, raised |-> FALSE]

\* update_deps(deps): the table after the call (deps is mutated in place), the
\* value returned, and whether the call raised instead of returning.
update_deps(d) ==
    IF ~Truthy(d) THEN [deps |-> d, ret |-> FALSE, raised |-> FALSE]
    ELSE IF d.kind = "int" THEN [deps |-> d, ret |-> FALSE, raised |-> TRUE]
    ELSE LET to_remove == SelectSeq(MERGED_CRATES, LAMBDA c : c \in DOMAIN d.tbl)
             modified == to_remove # <<>>
             removed == DelAll(d.tbl, to_remove)
             final == IF modified
                      THEN Put(removed, PAWS_COMMON, WORKSPACE_TRUE)
                      ELSE removed
         IN  [deps |-> Table(final), ret |-> modified, raised |-> FALSE]

(* ------------------------------------------------------------------ *)
(* Manifest documents and file contents.                               *)
(* ------------------------------------------------------------------ *)

\* The document toml.load returns, reduced to the three places a dependency
\* table can sit: data["dependencies"], data["dev-dependencies"], and a
\* target-specific table (data["target"][...]["dependencies"]).
Doc(d, v, t) == [deps |-> d, dev |-> v, target |-> t]

\* A document with none of the three.
EmptyDoc == Doc(AbsentT, AbsentT, AbsentT)

\* What a path holds on disk: nothing ("none"), TOML text ("toml") in the
\* author's formatting ("orig") or toml.dump's ("dumped"), text that is not
\* TOML ("malformed"), zero bytes ("empty"), or a cut-off dump ("partial").
NoFile == [kind |-> "none", fmt |-> "-", doc |-> EmptyDoc]
Text(doc) == [kind |-> "toml", fmt |-> "orig", doc |-> doc]
Malformed == [kind |-> "malformed", fmt |-> "-", doc |-> EmptyDoc]
Empty == [kind |-> "empty", fmt |-> "-", doc |-> EmptyDoc]
Partial == [kind |-> "partial", fmt |-> "-", doc |-> EmptyDoc]

\* toml.load succeeds on TOML text and on an empty file (the empty document).
Parsable(c) == c.kind \in {"toml", "empty"}

\* toml.load(f): the document of a parsable content.
Parse(c) == IF c.kind = "toml" THEN c.doc ELSE EmptyDoc

\* toml.dump(data, f) run to completion: the document in the library's own
\* formatting; the author's formatting is not kept.
Serialize(doc) == [kind |-> "toml", fmt |-> "dumped", doc |-> doc]

\* The file names of the model and the name main looks for.
MANIFEST_NAME == "Cargo.toml"
Names == {MANIFEST_NAME, "cargo.toml"}

\* A slip of the name test: the comparison ignores case.
IsManifest_nocase(name) == name \in {"Cargo.toml", "cargo.toml"}

\* file == "Cargo.toml"
IsManifest(name) == name = MANIFEST_NAME

Dirs == 1..NumDirs
ROOT == 1

\* os.path.join(root, file)
Join(d, n) == [dir |-> d, name |-> n]

AllPaths == {Join(d, n) : d \in Dirs, n \in Names}
NoPath == [dir |-> 0, name |-> ""]

\* The lines process_file prints.
Updating(p) == [kind |-> "Updating", path |-> p, detail |-> ""]
ErrorLine(p, e) == [kind |-> "Error", path |-> p, detail |-> e]

\* A slip of process_file: the second table is looked at only when the first
\* was not modified.
rewrite_tables_elif(doc) ==
    LET r1 == IF doc.deps.kind # "absent" THEN update_deps(doc.deps)
              ELSE [deps |-> doc.deps, ret |-> FALSE, raised |-> FALSE]
        r2 == IF ~r1.raised /\ ~r1.ret /\ doc.dev.kind # "absent"
              THEN update_deps(doc.dev)
              ELSE [deps |-> doc.dev, ret |-> FALSE, raised |-> FALSE]
    IN  [data |-> Doc(r1.deps, r2.deps, doc.target),
         modified |-> r1.ret \/ r2.ret,
         raised |-> r1.raised \/ r2.raised]

\* A slip of process_file: the flag is assigned from the second call alone.
rewrite_tables_last(doc) ==
    LET r1 == IF doc.deps.kind # "absent" THEN update_deps(doc.deps)
              ELSE [deps |-> doc.deps, ret |-> FALSE, raised |-> FALSE]
        r2 == IF ~r1.raised /\ doc.dev.kind # "absent"
              THEN update_deps(doc.dev)
              ELSE [deps |-> doc.dev, ret |-> FALSE, raised |-> FALSE]
    IN  [data |-> Doc(r1.deps, r2.deps, doc.target),
         modified |-> IF doc.dev.kind # "absent" THEN r2.ret ELSE r1.ret,
         raised |-> r1.raised \/ r2.raised]

\* A change of process_file: the target-specific table is rewritten too.
rewrite_tables_target(doc) ==
    LET r1 == IF doc.deps.kind # "absent" THEN update_deps(doc.deps)
              ELSE [deps |-> doc.deps, ret |-> FALSE, raised |-> FALSE]
        r2 == IF ~r1.raised /\ doc.dev.kind # "absent"
              THEN update_deps(doc.dev)
              ELSE [deps |-> doc.dev, ret |-> FALSE, raised |-> FALSE]
        r3 == IF ~r1.raised /\ ~r2.raised /\ doc.target.kind # "absent"
              THEN update_deps(doc.target)
              ELSE [deps |-> doc.target, ret |-> FALSE, raised |-> FALSE]
    IN  [data |-> Doc(r1.deps, r2.deps, r3.deps),
         modified |-> r1.ret \/ r2.ret \/ r3.ret,
         raised |-> r1.raised \/ r2.raised \/ r3.raised]

\* Lines 35-43 of process_file: update_deps on data["dependencies"] if the key
\* is there, then on data["dev-dependencies"] if the key is there; an
\* exception in the first call leaves the second uncalled. The result is the
\* document as mutated, the flag, and whether a call raised.
rewrite_tables(doc) ==
    LET r1 == IF doc.deps.kind # "absent" THEN update_deps(doc.deps)
              ELSE [deps |-> doc.deps, ret |-> FALSE, raised |-> FALSE]
        r2 == IF ~r1.raised /\ doc.dev.kind # "absent"
              THEN update_deps(doc.dev)
              ELSE [deps |-> doc.dev, ret |-> FALSE, raised |-> FALSE]
    IN  [data |-> Doc(r1.deps, r2.deps, doc.target),
         modified |-> r1.ret \/ r2.ret,
         raised |-> r1.raised \/ r2.raised]

\* What the belief "a failed listing raises" would make of os.walk.
os_walk_raises(state) ==
    IF state = "dir" THEN [raised |-> FALSE, dirs |-> Dirs]
    ELSE [raised |-> TRUE, dirs |-> {}]

\* os.walk("crates") with its default onerror=None: a root that cannot be
\* listed (missing, or not readable) yields nothing and raises nothing.
os_walk(state) ==
    IF state = "dir" THEN [raised |-> FALSE, dirs |-> Dirs]
    ELSE [raised |-> FALSE, dirs |-> {}]

(* ------------------------------------------------------------------ *)
(* State.                                                              *)
(* ------------------------------------------------------------------ *)

VARIABLES
    deps,       \* the table object handed to update_deps, as it is now
    deps0,      \* that table as it was before the first call
    hist,       \* per call so far: the table after it and the value returned
    rootState,  \* "crates": a listable directory, missing, or not listable
    disk,       \* path -> content of the file now
    disk0,      \* path -> content of the file when the run started
    pc,         \* where the program is
    dirsLeft,   \* directories os.walk has still to yield
    root,       \* the directory os.walk yielded last
    files,      \* names of that directory the inner loop has still to visit
    path,       \* the argument of the process_file call (current or last)
    data,       \* process_file's document
    modified,   \* process_file's flag
    handles,    \* paths with an open file handle
    log,        \* the lines printed so far
    calls,      \* path -> number of process_file calls made on it
    raisedAt,   \* path -> the step of process_file that raised, or "none"
    exit        \* exit status of the process once it has ended, else -1

depsVars == <<deps, deps0, hist>>

runVars == <<rootState, disk, disk0, pc, dirsLeft, root, files, path, data,
             modified, handles, log, calls, raisedAt, exit>>

vars == <<deps, deps0, hist, rootState, disk, disk0, pc, dirsLeft, root,
          files, path, data, modified, handles, log, calls, raisedAt, exit>>

\* The run part of the state while only update_deps is exercised.
RunIdle ==
    /\ rootState = "missing"
    /\ disk = [p \in AllPaths |-> NoFile]
    /\ disk0 = disk
    /\ pc = "idle"
    /\ dirsLeft = {}
    /\ root = 0
    /\ files = {}
    /\ path = NoPath
    /\ data = EmptyDoc
    /\ modified = FALSE
    /\ handles = {}
    /\ log = <<>>
    /\ calls = [p \in AllPaths |-> 0]
    /\ raisedAt = [p \in AllPaths |-> "none"]
    /\ exit = -1

(* ------------------------------------------------------------------ *)
(* update_deps applied to a table, repeatedly.                         *)
(* ------------------------------------------------------------------ *)

\* The inputs of update_deps: every table within the bounds, and None.
DepsInputs ==
    {Table(t) : t \in TablesUpTo(KeyUniverse, ValueUniverse, MaxKeys)}
        \cup {AbsentT}

InitDeps ==
    /\ deps \in DepsInputs
    /\ deps0 = deps
    /\ hist = <<>>
    /\ RunIdle

\* One call update_deps(deps) on the same object.
CallUpdateDeps ==
    /\ Len(hist) < MaxCalls
    /\ LET r == update_deps(deps)
       IN  /\ ~r.raised
           /\ deps' = r.deps
           /\ hist' = Append(hist, [deps |-> r.deps, ret |-> r.ret])
    /\ UNCHANGED <<deps0, runVars>>

NextDeps == CallUpdateDeps

SpecDeps == InitDeps /\ [][NextDeps]_vars

(* ------------------------------------------------------------------ *)
(* main and process_file.                                              *)
(* ------------------------------------------------------------------ *)

\* Scenario documents: one legacy dependency beside an unrelated one, and an
\* unrelated one alone.
LegacyDoc ==
    Doc(Table([k \in {"paws_fs", "serde"} |-> Str("1.0")]), AbsentT, AbsentT)
CleanDoc ==
    Doc(Table([k \in {"serde"} |-> Str("1.0")]), AbsentT, AbsentT)

\* The dependency specifications the tables of a manifest are drawn from.
DocValues == {Str("1.0"), WORKSPACE_TRUE}

\* What data["dependencies"] and data["dev-dependencies"] are drawn from.
TopTables ==
    {Table(t) : t \in TablesUpTo(KeyUniverse, DocValues, MaxKeys)}
        \cup {AbsentT, IntT}

\* What a target-specific table is drawn from.
TargetTables ==
    {Table(t) : t \in TablesUpTo({"paws_fs", "serde"}, {Str("1.0")}, MaxKeys)}
        \cup {AbsentT}

\* The update_deps part of the state while the run is exercised.
DepsIdle ==
    /\ deps = AbsentT
    /\ deps0 = AbsentT
    /\ hist = <<>>

\* The program before main is entered.
AtEntry ==
    /\ disk0 = disk
    /\ pc = "start"
    /\ dirsLeft = {}
    /\ root = 0
    /\ files = {}
    /\ path = NoPath
    /\ data = EmptyDoc
    /\ modified = FALSE
    /\ handles = {}
    /\ log = <<>>
    /\ calls = [p \in AllPaths |-> 0]
    /\ raisedAt = [p \in AllPaths |-> "none"]
    /\ exit = -1
    /\ DepsIdle

\* A tree of files: in every directory possibly a Cargo.toml (a scenario
\* document or text that does not parse) and possibly a file of another name.
\* A missing root has no files under it.
TreeDisks ==
    {d \in [AllPaths -> {NoFile, Text(LegacyDoc), Text(CleanDoc), Malformed}] :
        \A p \in AllPaths :
            p.name # MANIFEST_NAME => d[p] \in {NoFile, Text(LegacyDoc)}}

InitTree ==
    /\ rootState \in {"dir", "missing", "denied"}
    /\ disk \in TreeDisks
    /\ rootState = "missing" => disk = [p \in AllPaths |-> NoFile]
    /\ AtEntry

\* One manifest, crates/Cargo.toml, with any document within the bounds.
InitFile ==
    /\ rootState = "dir"
    /\ \E d \in TopTables, v \in TopTables, t \in TargetTables :
          disk = [p \in AllPaths |->
                     IF p = Join(ROOT, MANIFEST_NAME) THEN Text(Doc(d, v, t))
                     ELSE NoFile]
    /\ AtEntry

Init == InitTree \/ InitFile

\* If "except Exception" were missing: the exception leaves process_file and
\* main, and the process ends with a traceback.
Except_propagates(e) ==
    [log |-> log, pc |-> "done", exit |-> 1]

\* except Exception as e: print(f"Error processing {path}: {e}"), after which
\* process_file returns to the loop of main.
Except(e) ==
    [log |-> Append(log, ErrorLine(path, e)), pc |-> "walk", exit |-> exit]

\* An exception raised at step e of process_file, and its handling.
Raise(e) ==
    /\ raisedAt' = [raisedAt EXCEPT ![path] = e]
    /\ log' = Except(e).log
    /\ pc' = Except(e).pc
    /\ exit' = Except(e).exit

\* main: os.walk("crates") is entered.
StartWalk ==
    /\ pc = "start"
    /\ LET w == os_walk(rootState)
       IN  IF w.raised
           THEN /\ pc' = "done"
                /\ exit' = 1
                /\ UNCHANGED dirsLeft
           ELSE /\ pc' = "walk"
                /\ dirsLeft' = w.dirs
                /\ UNCHANGED exit
    /\ UNCHANGED <<deps, deps0, hist, rootState, disk, disk0, root, files,
                   path, data, modified, handles, log, calls, raisedAt>>

\* for root, dirs, files in os.walk(...): the next directory, top-down (the
\* root first), with the names of the files in it.
NextDir ==
    /\ pc = "walk"
    /\ files = {}
    /\ \E d \in dirsLeft :
          /\ ROOT \in dirsLeft => d = ROOT
          /\ root' = d
          /\ dirsLeft' = dirsLeft \ {d}
          /\ files' = {n \in Names : disk[Join(d, n)].kind # "none"}
    /\ UNCHANGED <<deps, deps0, hist, rootState, disk, disk0, pc, path, data,
                   modified, handles, log, calls, raisedAt, exit>>

\* for file in files: if file == "Cargo.toml": process_file is entered.
VisitFile ==
    /\ pc = "walk"
    /\ \E n \in files :
          /\ files' = files \ {n}
          /\ IF IsManifest(n)
             THEN /\ pc' = "open_r"
                  /\ path' = Join(root, n)
                  /\ calls' = [calls EXCEPT ![Join(root, n)] = @ + 1]
             ELSE UNCHANGED <<pc, path, calls>>
    /\ UNCHANGED <<deps, deps0, hist, rootState, disk, disk0, dirsLeft, root,
                   data, modified, handles, log, raisedAt, exit>>

\* os.walk is exhausted: main returns and the process exits with status 0.
EndWalk ==
    /\ pc = "walk"
    /\ files = {}
    /\ dirsLeft = {}
    /\ pc' = "done"
    /\ exit' = 0
    /\ UNCHANGED <<deps, deps0, hist, rootState, disk, disk0, dirsLeft, root,
                   files, path, data, modified, handles, log, calls, raisedAt>>

\* with open(path, 'r') as f: the open succeeds or raises OSError.
OpenRead ==
    /\ pc = "open_r"
    /\ \E ok \in BOOLEAN :
          IF ok
          THEN /\ handles' = handles \cup {path}
               /\ pc' = "load"
               /\ UNCHANGED <<log, raisedAt, exit>>
          ELSE /\ Raise("open_r")
               /\ UNCHANGED handles
    /\ UNCHANGED <<deps, deps0, hist, rootState, disk, disk0, dirsLeft, root,
                   files, path, data, modified, calls>>

\* data = toml.load(f): the read may fail, the text may not parse; either
\* way the with block closes the handle.
Load ==
    /\ pc = "load"
    /\ handles' = handles \ {path}
    /\ \E readable \in BOOLEAN :
          IF readable /\ Parsable(disk[path])
          THEN /\ data' = Parse(disk[path])
               /\ pc' = "rewrite"
               /\ UNCHANGED <<log, raisedAt, exit>>
          ELSE /\ Raise("load")
               /\ UNCHANGED data
    /\ UNCHANGED <<deps, deps0, hist, rootState, disk, disk0, dirsLeft, root,
                   files, path, modified, calls>>

\* Lines 35-47: the two update_deps calls and the test of the flag.
Rewrite ==
    /\ pc = "rewrite"
    /\ LET r == rewrite_tables(data)
       IN  /\ data' = r.data
           /\ IF r.raised
              THEN /\ Raise("rewrite")
                   /\ modified' = FALSE
              ELSE /\ modified' = r.modified
                   /\ pc' = IF r.modified THEN "notice" ELSE "walk"
                   /\ UNCHANGED <<log, raisedAt, exit>>
    /\ UNCHANGED <<deps, deps0, hist, rootState, disk, disk0, dirsLeft, root,
                   files, path, handles, calls>>

\* print(f"Updating {path}")
Notice ==
    /\ pc = "notice"
    /\ log' = Append(log, Updating(path))
    /\ pc' = "open_w"
    /\ UNCHANGED <<deps, deps0, hist, rootState, disk, disk0, dirsLeft, root,
                   files, path, data, modified, handles, calls, raisedAt,
                   exit>>

\* with open(path, 'w') as f: a successful open truncates the file.
OpenWrite ==
    /\ pc = "open_w"
    /\ \E ok \in BOOLEAN :
          IF ok
          THEN /\ disk' = [disk EXCEPT ![path] = Empty]
               /\ handles' = handles \cup {path}
               /\ pc' = "dump"
               /\ UNCHANGED <<log, raisedAt, exit>>
          ELSE /\ Raise("open_w")
               /\ UNCHANGED <<disk, handles>>
    /\ UNCHANGED <<deps, deps0, hist, rootState, disk0, dirsLeft, root, files,
                   path, data, modified, calls>>

\* toml.dump(data, f): the dump completes, or raises before a byte is written
\* (the file stays empty), or raises part-way through the write; either way the
\* with block closes the handle.
Dump ==
    /\ pc = "dump"
    /\ handles' = handles \ {path}
    /\ \E outcome \in {"ok", "empty", "partial"} :
          IF outcome = "ok"
          THEN /\ disk' = [disk EXCEPT ![path] = Serialize(data)]
               /\ pc' = "walk"
               /\ UNCHANGED <<log, raisedAt, exit>>
          ELSE /\ disk' = [disk EXCEPT ![path] =
                              IF outcome = "empty" THEN Empty ELSE Partial]
               /\ Raise(IF outcome = "empty" THEN "dump_empty"
                        ELSE "dump_partial")
    /\ UNCHANGED <<deps, deps0, hist, rootState, disk0, dirsLeft, root, files,
                   path, data, modified, calls>>

Next ==
    \/ StartWalk
    \/ NextDir
    \/ VisitFile
    \/ EndWalk
    \/ OpenRead
    \/ Load
    \/ Rewrite
    \/ Notice
    \/ OpenWrite
    \/ Dump

Spec == Init /\ [][Next]_vars

\* The program is one thread that always takes its next step.
FairSpec == InitTree /\ [][Next]_vars /\ WF_vars(Next)

(* ------------------------------------------------------------------ *)
(* Vocabulary of the properties.                                       *)
(* ------------------------------------------------------------------ *)

\* The table holds at least one key of the Legacy Package Set.
HasLegacy(d) == d.kind = "table" /\ (DOMAIN d.tbl) \cap LegacySet # {}

\* What the rewrite is meant to make of a table: the legacy keys gone, the
\* consolidated key bound to the replacement entry, every other key as it was.
Consolidated(d) ==
    Table([k \in ((DOMAIN d.tbl) \ LegacySet) \cup {PAWS_COMMON} |->
              IF k = PAWS_COMMON THEN WORKSPACE_TRUE ELSE d.tbl[k]])

\* One of the two top-level tables holds a legacy key.
TopLegacy(doc) == HasLegacy(doc.deps) \/ HasLegacy(doc.dev)

\* The document a manifest is meant to hold after the rewrite.
ExpectedDoc(doc) ==
    Doc(IF HasLegacy(doc.deps) THEN Consolidated(doc.deps) ELSE doc.deps,
        IF HasLegacy(doc.dev) THEN Consolidated(doc.dev) ELSE doc.dev,
        doc.target)

\* The document the file held when the run started.
Doc0(p) == Parse(disk0[p])

\* A line of the given kind was printed for the path.
Printed(kind, p) ==
    \E i \in 1..Len(log) : log[i].kind = kind /\ log[i].path = p

\* The lines printed for the path, in order.
LinesOf(p) == SelectSeq(log, LAMBDA l : l.path = p)

\* process_file was called on the path and has returned.
Finished(p) == calls[p] >= 1 /\ (path # p \/ pc \in {"walk", "done"})

\* process_file was called on the path, has returned, and got past toml.load
\* and the two update_deps calls without an exception.
Rewritten(p) == Finished(p) /\ raisedAt[p] \notin {"open_r", "load", "rewrite"}

\* The path holds what a completed toml.dump wrote.
Written(p) == disk[p].kind = "toml" /\ disk[p].fmt = "dumped"

\* What one process_file call makes of a manifest with content c when step e
\* raises (e = "none": no step raises), whatever else the tree holds: the
\* content left on disk and the lines printed.
Alone(p, c, e) ==
    IF e \in {"open_r", "load", "rewrite"}
    THEN [disk |-> c, lines |-> <<ErrorLine(p, e)>>]
    ELSE IF ~TopLegacy(Parse(c))
    THEN [disk |-> c, lines |-> <<>>]
    ELSE IF e = "none"
    THEN [disk |-> Serialize(ExpectedDoc(Parse(c))), lines |-> <<Updating(p)>>]
    ELSE [disk |-> IF e = "open_w" THEN c
                   ELSE IF e = "dump_empty" THEN Empty ELSE Partial,
          lines |-> <<Updating(p), ErrorLine(p, e)>>]

(* ------------------------------------------------------------------ *)
(* Properties of update_deps (checked under SpecDeps).                 *)
(* ------------------------------------------------------------------ *)

\* C1: for every table with at least one legacy key, after update_deps the
\* call returned true, no legacy key is left, 'paws_common' is bound to
\* {workspace: true} whatever it was bound to before, and every other
\* non-legacy key is still there with its original value (and no key was
\* added besides 'paws_common').
C1_LegacyTableRewritten ==
    (Len(hist) >= 1 /\ HasLegacy(deps0)) =>
        LET t == hist[1].deps.tbl
        IN  /\ hist[1].ret = TRUE
            /\ hist[1].deps.kind = "table"
            /\ (DOMAIN t) \cap LegacySet = {}
            /\ PAWS_COMMON \in DOMAIN t
            /\ t[PAWS_COMMON] = WORKSPACE_TRUE
            /\ DOMAIN t = ((DOMAIN deps0.tbl) \ LegacySet) \cup {PAWS_COMMON}
            /\ \A k \in (DOMAIN deps0.tbl) \ (LegacySet \cup {PAWS_COMMON}) :
                  t[k] = deps0.tbl[k]

\* Scenario D was run: {paws_fs: "1.0", paws_common: "0.1"} became
\* {paws_common: {workspace: true}}.
C1_Witness ==
    /\ Len(hist) = 1
    /\ deps0 = Table([k \in {"paws_fs", PAWS_COMMON} |->
                         IF k = "paws_fs" THEN Str("1.0") ELSE Str("0.1")])
    /\ deps = Table([k \in {PAWS_COMMON} |-> WORKSPACE_TRUE])

\* C2: a table is modified if and only if it holds a legacy key: on a table
\* with none (the empty table, no table, a table holding 'paws_common' with
\* another value) update_deps returns false and leaves keys and values as
\* they were; on a table with one the table changes.
C2_ModifiedIffLegacy ==
    Len(hist) >= 1 =>
        /\ ~HasLegacy(deps0) => (hist[1].ret = FALSE /\ hist[1].deps = deps0)
        /\ (hist[1].deps # deps0) <=> HasLegacy(deps0)
        /\ hist[1].ret <=> HasLegacy(deps0)

\* update_deps was called on {paws_common: "0.1", serde: "1.0"} and left it
\* as it was.
C2_Witness ==
    /\ Len(hist) = 1
    /\ deps0 = Table([k \in {PAWS_COMMON, "serde"} |->
                         IF k = "serde" THEN Str("1.0") ELSE Str("0.1")])
    /\ deps = deps0
    /\ hist[1].ret = FALSE

\* C3: update_deps is idempotent: every call after the first leaves the table
\* as the first call left it and returns false.
C3_Idempotent ==
    \A i \in 2..Len(hist) :
        hist[i].deps = hist[1].deps /\ hist[i].ret = FALSE

\* update_deps was called twice on a table that held two legacy keys.
C3_Witness ==
    /\ Len(hist) >= 2
    /\ {"paws_fs", "paws_test_kit"} \subseteq DOMAIN deps0.tbl
    /\ hist[1].ret = TRUE
    /\ deps = hist[1].deps

(* ------------------------------------------------------------------ *)
(* Properties of process_file and main (checked under Spec).           *)
(* ------------------------------------------------------------------ *)

C5_FailureIsolated ==
    /\ \A p \in AllPaths :
          Finished(p) =>
              /\ raisedAt[p] # "none" => Printed("Error", p)
              /\ disk[p] = Alone(p, disk0[p], raisedAt[p]).disk
              /\ LinesOf(p) = Alone(p, disk0[p], raisedAt[p]).lines
    /\ exit \in {-1, 0}
    /\ (pc = "done" /\ rootState = "dir") =>
          \A p \in AllPaths :
              (p.name = "Cargo.toml" /\ disk0[p].kind # "none") =>
                  Finished(p)

\* The run has ended; one manifest failed, and one processed after it was
\* rewritten.
C5_Witness ==
    /\ pc = "done"
    /\ \E i, j \in 1..Len(log) :
          /\ i < j
          /\ log[i].kind = "Error"
          /\ log[j].kind = "Updating"
          /\ log[i].path # log[j].path
          /\ Written(log[j].path)

\* C6, as stated: when the root cannot be listed the run does not complete
\* normally.
C6_AsStated ==
    (pc = "done" /\ rootState # "dir") => exit # 0

\* C6, amended: when the root directory cannot be listed (it is missing or
\* not readable) the error is swallowed by the walk: main returns normally,
\* the process exits with status 0, no file is processed or changed and
\* nothing is printed.
C6_WalkErrorSwallowed ==
    (pc = "done" /\ rootState # "dir") =>
        /\ exit = 0
        /\ log = <<>>
        /\ disk = disk0
        /\ \A p \in AllPaths : calls[p] = 0

\* The run over a missing root has ended.
C6_Witness == pc = "done" /\ rootState = "missing"

\* The run ended normally with every Cargo.toml and no other file processed
\* once, and no handle open.
RunDone ==
    /\ pc = "done"
    /\ exit = 0
    /\ handles = {}
    /\ \A p \in AllPaths :
          calls[p] = IF p.name = "Cargo.toml" /\ disk0[p].kind # "none"
                     THEN 1 ELSE 0

HoldsRewritten ==
    /\ path \in AllPaths
    /\ \/ pc \in {"notice", "open_w", "dump"}
       \/ pc \in {"walk", "done"} /\ Rewritten(path)

\* The tables of document d, set against those of the original o: neither
\* top-level table holds a legacy key, and a top-level table that held none
\* is as it was.
TopTablesClean(d, o) ==
    /\ ~HasLegacy(d.deps)
    /\ ~HasLegacy(d.dev)
    /\ ~HasLegacy(o.deps) => d.deps = o.deps
    /\ ~HasLegacy(o.dev) => d.dev = o.dev

C10_ErroredFileUntouched ==
    \A p \in AllPaths :
        (Finished(p) /\ Printed("Error", p)) =>
            /\ disk[p] = disk0[p]
            /\ ~Printed("Updating", p)

====
